---- MODULE Spec2Model ----
(***************************************************************************)
(* WebSphereMQConnectionFactory (src/src/springpython/jms/factory.py):     *)
(* the connection lifecycle, the three queue-handle caches and the         *)
(* send / receive / dynamic-queue operations, run by caller threads        *)
(* against an abstract transport (pymqi QueueManager and Queue); and the   *)
(* MQRFH2 wire format (class MQRFH2JMS) with the mapping between a         *)
(* TextMessage, the message descriptor and the bytes of one message.       *)
(***************************************************************************)
EXTENDS Integers, Sequences, FiniteSets, TLC

\* ------------------------------------------------------------------ bounds
\* Method calls counted in one run: over all the interleaved caller threads
\* (MaxCalls), and of the single caller of the sequential specification
\* (MaxSeqCalls). Calls made once a teardown has begun, and destroy on a factory
\* that is not connected, are not counted.
MaxCalls == 2
MaxSeqCalls == 3
MaxAddressedCalls == 2

\* --------------------------------------------------------- destination names
\* A name is a sequence of characters. s[a:] of Python for 0 <= a, and
\* s.startswith(p).
SliceFrom(s, a) == SubSeq(s, a + 1, Len(s))
StartsWith(s, p) == Len(p) <= Len(s) /\ SubSeq(s, 1, Len(p)) = p
\* The first position from i on that holds one of the bytes of stop, Len(s) + 1
\* when there is none.
Find(s, i, stop) ==
    CHOOSE j \in i..(Len(s) + 1) :
        /\ j = Len(s) + 1 \/ s[j] \in stop
        /\ \A k \in i..(j - 1) : s[k] \notin stop
QueueUri == <<"q", "u", "e", "u", "e", ":", "/", "/", "/">>
QueueUriWithManager == <<"q", "u", "e", "u", "e", ":", "/", "/">>

\* (a send that uses the destination as the caller wrote it)
strip_prefixes_from_destination_Unchanged(destination) == destination
\* _strip_prefixes_from_destination(destination).
strip_prefixes_from_destination(destination) ==
    IF StartsWith(destination, QueueUri) THEN SliceFrom(destination, Len(QueueUri))
    ELSE IF StartsWith(destination, QueueUriWithManager)
      THEN LET no_qm_dest == SliceFrom(destination, Len(QueueUriWithManager))
               slash == Find(no_qm_dest, 1, {"/"})
           IN SliceFrom(no_qm_dest, slash)
    ELSE destination

\* ------------------------------------------------------------ input domains
Threads == {"t1", "t2"}
MainThread == "t1"
\* Normalised destination names: Q1, a queue name with a "/" in it, and DynName,
\* the name the transport gives to a queue created from dynamic_queue_template.
Q1 == <<"Q", "/", "1">>
DynName == <<"D", "Q">>
Dests == {Q1, DynName}
\* Every way a caller writes a destination: the names, and Q1 as queue:///Q/1
\* and as queue://QM/Q/1.
Addresses ==
    Dests \cup {QueueUri \o Q1, QueueUriWithManager \o <<"Q", "M", "/">> \o Q1}
OpNames == {"send", "receive", "open_dynamic_queue", "close_dynamic_queue", "destroy"}
\* Identifier the transport assigns to a message on put.
AssignedId == "ID:414d51"

NoHandle == 0
NoThread == "none"

VARIABLES
    \* ---- factory fields (__init__, factory.py:143-151)
    is_connected,                \* self._is_connected
    disconnecting,               \* self._disconnecting
    open_send_queues_cache,      \* self._open_send_queues_cache
    open_receive_queues_cache,   \* self._open_receive_queues_cache
    open_dynamic_queues_cache,   \* self._open_dynamic_queues_cache
    cache_open_send_queues,      \* constructor option
    cache_open_receive_queues,   \* constructor option
    ssl,                         \* constructor option
    ssl_cipher_spec,             \* constructor option: TRUE when a value was given
    ssl_key_repository,          \* constructor option: TRUE when a value was given
    needs_mcd,                   \* constructor option
    mgr,                         \* self.mgr: index into conns, 0 before the first _connect
    \* ---- the lock of @synchronized() on destroy and _connect
    lock,
    \* ---- transport
    conns,                       \* one status per QueueManager object ever created
    handles,                     \* one record per queue handle ever opened
    \* ---- caller threads
    pc, op, dest, queue, outcome, calls, msg,
    exc,                         \* the error a call raised, and the native failure behind it
    \* ---- bookkeeping of the bounded run
    ncalls, budget,
    \* ---- one message on its way from a send to a receive
    stage,                       \* how far the message has come
    snd_message,                 \* send: message
    snd_destination,             \* send: destination
    snd_now,                     \* send: now
    snd_md,                      \* send: md
    snd_body,                    \* send: body
    sent_message,                \* send: message, once the put has succeeded
    rcv_mqrfh2,                  \* _build_text_message: mqrfh2, once it has read the message
    rcv_message,                 \* receive: the TextMessage returned
    \* ---- one expiration too wide for the integers of the checker
    exp_message,                 \* _build_md: message.jms_expiration
    exp_md                       \* _build_md: md.Expiry

factoryVars == <<is_connected, disconnecting, open_send_queues_cache,
                 open_receive_queues_cache, open_dynamic_queues_cache, mgr>>
configVars == <<cache_open_send_queues, cache_open_receive_queues,
                ssl, ssl_cipher_spec, ssl_key_repository, needs_mcd>>
transportVars == <<conns, handles>>
threadVars == <<pc, op, dest, queue, outcome, calls, msg, exc>>
boundVars == <<ncalls, budget>>
codecVars == <<stage, snd_message, snd_destination, snd_now, snd_md, snd_body, sent_message,
               rcv_mqrfh2, rcv_message, exp_message, exp_md>>
vars == <<factoryVars, configVars, lock, transportVars, threadVars, boundVars, codecVars>>

EmptyCache == [d \in Addresses |-> NoHandle]
NewMessage == [jms_message_id |-> "None"]

\* ---------------------------------------------------------------- transport
ConnLive(c) == c \in 1..Len(conns) /\ conns[c] = "connected"
HandleUsable(h) == h \in 1..Len(handles) /\ handles[h].open /\ ConnLive(handles[h].conn)
NewHandle(d, role) == [q |-> d, conn |-> mgr, open |-> TRUE, role |-> role]
CloseHandle(h) == [handles EXCEPT ![h].open = FALSE]

\* ------------------------------------------------------------ native failures
\* An MQMIError of the transport carries a completion code and a reason code.
MQCC_FAILED == "MQCC_FAILED"
MQRC_NO_MSG_AVAILABLE == "MQRC_NO_MSG_AVAILABLE"
MQRC_CONNECTION_BROKEN == "MQRC_CONNECTION_BROKEN"
NoCodes == [comp |-> "none", reason |-> "none"]
MQMIError(reason) == [comp |-> MQCC_FAILED, reason |-> reason]
\* Reasons a transport call can fail with: only a get can find no message.
FailureReasons(call) ==
    IF call = "get" THEN {MQRC_NO_MSG_AVAILABLE, MQRC_CONNECTION_BROKEN}
                    ELSE {MQRC_CONNECTION_BROKEN}
\* exc[t].native is the MQMIError the transport raised in the call (NoCodes when
\* none), exc[t].carried the codes of the error that reached the caller.
NoError == [native |-> NoCodes, carried |-> NoCodes]

\* ----------------------------------------------------------- thread helpers
Log(t, c) == calls' = [calls EXCEPT ![t] = Append(@, c)]
Goto(t, p) == pc' = [pc EXCEPT ![t] = p]
Finish(t, res) ==
    /\ pc' = [pc EXCEPT ![t] = "idle"]
    /\ outcome' = [outcome EXCEPT ![t] = res]
\* The call returns res.
Return(t, res) == Finish(t, res) /\ UNCHANGED exc
\* The call raises an error of the given type carrying the given codes; e is the
\* native failure behind it (NoCodes when there is none).
Raise(t, type, e, carried) ==
    /\ Finish(t, type)
    /\ exc' = [exc EXCEPT ![t] = [native |-> e, carried |-> carried]]
\* An MQMIError that nothing catches reaches the caller as it is.
RaiseRaw(t, e) == Raise(t, "MQMIError", e, e)
\* `raise WebSphereMQJMSException(e, e.comp, e.reason)`.
RaiseWrapped(t, e) == Raise(t, "WebSphereMQJMSException", e, e)

Constructed ==
    /\ is_connected = FALSE
    /\ disconnecting = FALSE
    /\ open_send_queues_cache = EmptyCache
    /\ open_receive_queues_cache = EmptyCache
    /\ open_dynamic_queues_cache = EmptyCache
    /\ cache_open_send_queues \in BOOLEAN
    /\ cache_open_receive_queues \in BOOLEAN
    /\ ssl \in BOOLEAN
    /\ ssl_cipher_spec \in BOOLEAN
    /\ ssl_key_repository \in BOOLEAN
    /\ needs_mcd \in BOOLEAN
    /\ mgr = 0
    /\ lock = NoThread
    /\ conns = << >>
    /\ handles = << >>
    /\ pc = [t \in Threads |-> "idle"]
    /\ op = [t \in Threads |-> "none"]
    /\ dest = [t \in Threads |-> Q1]
    /\ queue = [t \in Threads |-> NoHandle]
    /\ outcome = [t \in Threads |-> "none"]
    /\ calls = [t \in Threads |-> << >>]
    /\ msg = [t \in Threads |-> NewMessage]
    /\ exc = [t \in Threads |-> NoError]
    /\ ncalls = 0

\* The defaults of the constructor: ssl=False, ssl_cipher_spec=None,
\* ssl_key_repository=None.
DefaultTls == ~ssl /\ ~ssl_cipher_spec /\ ~ssl_key_repository

\* No message is followed through the wire format.
NoTraffic ==
    /\ stage = "off"
    /\ snd_message = << >>
    /\ snd_destination = << >>
    /\ snd_now = 0
    /\ snd_md = << >>
    /\ snd_body = << >>
    /\ sent_message = << >>
    /\ rcv_mqrfh2 = << >>
    /\ rcv_message = << >>
    /\ exp_message = << >>
    /\ exp_md = << >>

\* The interleaved callers run on a factory without TLS settings; the single
\* caller runs on every combination of them. Both with needs_mcd=True, the
\* default.
Init == Constructed /\ DefaultTls /\ needs_mcd /\ NoTraffic /\ budget = MaxCalls
InitSeq == Constructed /\ needs_mcd /\ NoTraffic /\ budget = MaxSeqCalls

\* ------------------------------------------------- shared prologue of the public methods
\* (a method that does not look at self._disconnecting)
AbortCheck_NeverAborts == FALSE
\* `if self._disconnecting: return` (send, receive, open_dynamic_queue,
\* close_dynamic_queue).
AbortCheck == disconnecting

\* `if not self._is_connected: self._connect()`.
NeedsConnect == ~is_connected

\* (a _connect that connects whatever self._is_connected says)
ConnectSkips_Never == FALSE
\* `if self._is_connected: return` at the top of _connect.
ConnectSkips == is_connected

\* (a destroy that tears down whatever self._is_connected says)
DestroyNeeded_Always == TRUE
\* `if self._is_connected:` at the top of destroy.
DestroyNeeded == is_connected

\* Acquiring the lock of @synchronized(): one lock for destroy and _connect of a
\* factory.
LockFree == lock = NoThread

\* Where a method continues once the factory is connected.
AfterConnect(o) ==
    CASE o = "send" -> "getq"
      [] o = "receive" -> "getq"
      [] OTHER -> "dyn_open"

\* A caller thread invokes a method: the arguments and the fresh per-call state.
\* `counted` tells whether the call counts against the budget of the run. The
\* second thread starts calling once the first has made a call (the threads are
\* interchangeable).
Invoke(t, o, d, counted) ==
    /\ pc[t] = "idle"
    /\ counted => ncalls < budget
    /\ t # MainThread => op[MainThread] # "none"
    /\ op' = [op EXCEPT ![t] = o]
    /\ dest' = [dest EXCEPT ![t] = d]
    /\ queue' = [queue EXCEPT ![t] = NoHandle]
    /\ calls' = [calls EXCEPT ![t] = << >>]
    /\ msg' = [msg EXCEPT ![t] = NewMessage]
    /\ exc' = [exc EXCEPT ![t] = NoError]
    /\ ncalls' = IF counted THEN ncalls + 1 ELSE ncalls
    /\ UNCHANGED budget

\* send, receive, open_dynamic_queue or close_dynamic_queue is called with a
\* destination of D and tests self._disconnecting.
Calling(t, D) ==
    /\ \E o \in OpNames \ {"destroy"}, d \in D :
        /\ o = "open_dynamic_queue" => d = Q1
        /\ Invoke(t, o, d, ~disconnecting)
        /\ IF AbortCheck
             THEN Finish(t, "None")
             ELSE /\ Goto(t, IF o = "close_dynamic_queue" THEN "cd_check" ELSE "conn_check")
                  /\ outcome' = [outcome EXCEPT ![t] = "running"]
    /\ UNCHANGED <<factoryVars, configVars, codecVars, lock, transportVars>>
\* The callers that name their queues ...
Call(t) == Calling(t, Dests)
\* ... and the callers that also write them as queue:/// and queue://QM/ URIs.
CallAddressed(t) == Calling(t, Addresses)

CheckConnected(t) ==
    /\ pc[t] = "conn_check"
    /\ Goto(t, IF NeedsConnect THEN "connect" ELSE AfterConnect(op[t]))
    /\ UNCHANGED <<factoryVars, configVars, codecVars, lock, transportVars,
                   op, dest, queue, outcome, calls, msg, exc, boundVars>>

\* (a _connect that does not look at the TLS settings)
TlsMisconfigured_Never == FALSE
\* `if self.ssl: if not (self.ssl_cipher_spec and self.ssl_key_repository)`.
TlsMisconfigured == ssl /\ ~(ssl_cipher_spec /\ ssl_key_repository)

\* _connect up to the call of connectWithOptions: the QueueManager object is
\* created, then the TLS settings are checked.
ConnectBegin(t) ==
    /\ pc[t] = "connect"
    /\ LockFree
    /\ IF ConnectSkips
         THEN /\ Goto(t, AfterConnect(op[t]))
              /\ UNCHANGED <<mgr, conns, lock, outcome, exc>>
         ELSE /\ conns' = Append(conns, "new")
              /\ mgr' = Len(conns) + 1
              /\ IF TlsMisconfigured
                   THEN /\ Raise(t, "JMSException", NoCodes, NoCodes)
                        /\ UNCHANGED lock
                   ELSE /\ lock' = t
                        /\ Goto(t, "connecting")
                        /\ UNCHANGED <<outcome, exc>>
    /\ UNCHANGED <<is_connected, disconnecting, open_send_queues_cache,
                   open_receive_queues_cache, open_dynamic_queues_cache,
                   configVars, codecVars, handles, op, dest, queue, calls, msg, boundVars>>

\* self.mgr.connectWithOptions(...) and what follows it.
ConnectEnd(t) ==
    /\ pc[t] = "connecting"
    /\ lock = t
    /\ Log(t, "connect")
    /\ lock' = NoThread
    /\ \/ /\ conns' = [conns EXCEPT ![mgr] = "connected"]
          /\ is_connected' = TRUE
          /\ Goto(t, AfterConnect(op[t]))
          /\ UNCHANGED <<outcome, exc>>
       \/ /\ conns' = [conns EXCEPT ![mgr] = "failed"]
          /\ \E r \in FailureReasons("connect") : RaiseWrapped(t, MQMIError(r))
          /\ UNCHANGED is_connected
    /\ UNCHANGED <<disconnecting, open_send_queues_cache, open_receive_queues_cache,
                   open_dynamic_queues_cache, mgr, configVars, codecVars, handles,
                   op, dest, queue, msg, boundVars>>

\* ------------------------------------------------------------ queue handles
\* The destination a call looks its queue up with: send has replaced it with
\* `self._strip_prefixes_from_destination(destination)`, receive has not.
DestKey(t) ==
    IF op[t] = "send" THEN strip_prefixes_from_destination(dest[t]) ELSE dest[t]
Role(t) == IF op[t] = "send" THEN "send" ELSE "receive"
CachingOn(role) ==
    IF role = "send" THEN cache_open_send_queues ELSE cache_open_receive_queues
CacheOf(role) ==
    IF role = "send" THEN open_send_queues_cache ELSE open_receive_queues_cache
SetCache(role, c) ==
    IF role = "send"
      THEN open_send_queues_cache' = c /\ UNCHANGED open_receive_queues_cache
      ELSE open_receive_queues_cache' = c /\ UNCHANGED open_send_queues_cache

\* (a lookup that never finds the destination)
InCache_Never(d, cache) == FALSE
\* `if destination in cache` in _get_queue_from_cache.
InCache(d, cache) == cache[d] # NoHandle

\* get_queue_for_sending / get_queue_for_receiving up to the cache lookup; without
\* caching the handle is opened here.
GetQueue(t) ==
    /\ pc[t] = "getq"
    /\ IF CachingOn(Role(t))
         THEN /\ IF InCache(DestKey(t), CacheOf(Role(t)))
                   THEN /\ queue' = [queue EXCEPT ![t] = CacheOf(Role(t))[DestKey(t)]]
                        /\ Goto(t, "io")
                   ELSE /\ Goto(t, "open_cached")
                        /\ UNCHANGED queue
              /\ UNCHANGED <<handles, outcome, exc, calls>>
         ELSE /\ Log(t, "open")
              /\ \/ /\ ConnLive(mgr)
                    /\ handles' = Append(handles, NewHandle(DestKey(t), Role(t)))
                    /\ queue' = [queue EXCEPT ![t] = Len(handles) + 1]
                    /\ Goto(t, "io")
                    /\ UNCHANGED <<outcome, exc>>
                 \/ /\ \E r \in FailureReasons("open") : RaiseRaw(t, MQMIError(r))
                    /\ UNCHANGED <<handles, queue>>
    /\ UNCHANGED <<factoryVars, configVars, codecVars, lock, conns, op, dest, msg, boundVars>>

\* `cache[destination] = self.mq.Queue(self.mgr, destination, ...)`.
OpenCached(t) ==
    /\ pc[t] = "open_cached"
    /\ Log(t, "open")
    /\ \/ /\ ConnLive(mgr)
          /\ handles' = Append(handles, NewHandle(DestKey(t), Role(t)))
          /\ SetCache(Role(t), [CacheOf(Role(t)) EXCEPT ![DestKey(t)] = Len(handles) + 1])
          /\ Goto(t, "ret_cached")
          /\ UNCHANGED <<outcome, exc>>
       \/ /\ \E r \in FailureReasons("open") : RaiseRaw(t, MQMIError(r))
          /\ UNCHANGED <<handles, open_send_queues_cache, open_receive_queues_cache>>
    /\ UNCHANGED <<is_connected, disconnecting, open_dynamic_queues_cache, mgr,
                   configVars, codecVars, lock, conns, op, dest, queue, msg, boundVars>>

\* `return cache[destination]` after the insertion.
ReturnCached(t) ==
    /\ pc[t] = "ret_cached"
    /\ IF CacheOf(Role(t))[DestKey(t)] # NoHandle
         THEN /\ queue' = [queue EXCEPT ![t] = CacheOf(Role(t))[DestKey(t)]]
              /\ Goto(t, "io")
              /\ UNCHANGED <<outcome, exc>>
         ELSE /\ Raise(t, "KeyError", NoCodes, NoCodes)
              /\ UNCHANGED queue
    /\ UNCHANGED <<factoryVars, configVars, codecVars, lock, transportVars,
                   op, dest, calls, msg, boundVars>>

\* ---------------------------------------------------------------------- send
\* (a send that tries its put again when it fails)
Put_Retries(t) ==
    /\ pc[t] = "io"
    /\ op[t] = "send"
    /\ Log(t, "put")
    /\ \/ /\ HandleUsable(queue[t])
          /\ Goto(t, "after_put")
       \/ Goto(t, "io")
    /\ UNCHANGED <<factoryVars, configVars, codecVars, lock, transportVars,
                   op, dest, queue, outcome, exc, msg, boundVars>>

\* queue.put(body, md); an MQMIError is wrapped and raised.
Put(t) ==
    /\ pc[t] = "io"
    /\ op[t] = "send"
    /\ Log(t, "put")
    /\ \/ /\ HandleUsable(queue[t])
          /\ Goto(t, "after_put")
          /\ UNCHANGED <<outcome, exc>>
       \/ \E r \in FailureReasons("put") : RaiseWrapped(t, MQMIError(r))
    /\ UNCHANGED <<factoryVars, configVars, codecVars, lock, transportVars,
                   op, dest, queue, msg, boundVars>>

\* (a send that never closes the handle it opened)
AfterPut_NoClose(t) ==
    /\ pc[t] = "after_put"
    /\ msg' = [msg EXCEPT ![t].jms_message_id = AssignedId]
    /\ Return(t, "None")
    /\ UNCHANGED <<factoryVars, configVars, codecVars, lock, transportVars, op, dest, queue,
                   calls, boundVars>>

\* `if not self.cache_open_send_queues: queue.close()`, then the JMS headers
\* overwritten from the descriptor.
AfterPut(t) ==
    /\ pc[t] = "after_put"
    /\ IF ~cache_open_send_queues
         THEN /\ Log(t, "close")
              /\ \/ /\ HandleUsable(queue[t])
                    /\ handles' = CloseHandle(queue[t])
                    /\ msg' = [msg EXCEPT ![t].jms_message_id = AssignedId]
                    /\ Return(t, "None")
                 \/ /\ \E r \in FailureReasons("close") : RaiseRaw(t, MQMIError(r))
                    /\ UNCHANGED <<handles, msg>>
         ELSE /\ msg' = [msg EXCEPT ![t].jms_message_id = AssignedId]
              /\ Return(t, "None")
              /\ UNCHANGED <<handles, calls>>
    /\ UNCHANGED <<factoryVars, configVars, codecVars, lock, conns, op, dest, queue, boundVars>>

\* ------------------------------------------------------------------- receive
\* (a receive that wraps every failure of get alike)
ReceiveError_AlwaysGeneric(e) == [type |-> "WebSphereMQJMSException", carried |-> e]
\* The `except MQMIError` clause of receive: the no-message reason code becomes
\* NoMessageAvailableException, any other WebSphereMQJMSException(e, e.comp, e.reason).
ReceiveError(e) ==
    IF e.reason = MQRC_NO_MSG_AVAILABLE
      THEN [type |-> "NoMessageAvailableException", carried |-> NoCodes]
      ELSE [type |-> "WebSphereMQJMSException", carried |-> e]

\* queue.get(None, md, gmo) and the mapping of its failures. The transport reports
\* that no message is available only on a handle it could read from.
Get(t) ==
    /\ pc[t] = "io"
    /\ op[t] = "receive"
    /\ Log(t, "get")
    /\ \/ /\ HandleUsable(queue[t])
          /\ Return(t, "TextMessage")
       \/ \E r \in FailureReasons("get") :
             /\ r = MQRC_NO_MSG_AVAILABLE => HandleUsable(queue[t])
             /\ Raise(t, ReceiveError(MQMIError(r)).type, MQMIError(r),
                      ReceiveError(MQMIError(r)).carried)
    /\ UNCHANGED <<factoryVars, configVars, codecVars, lock, transportVars,
                   op, dest, queue, msg, boundVars>>

\* ------------------------------------------------------------ dynamic queues
\* self.mq.Queue(self.mgr, self.dynamic_queue_template, MQOO_INPUT_SHARED).
OpenDynamic(t) ==
    /\ pc[t] = "dyn_open"
    /\ Log(t, "open")
    /\ \/ /\ ConnLive(mgr)
          /\ \A h \in 1..Len(handles) :
                ~(handles[h].role = "dynamic" /\ HandleUsable(h))
          /\ handles' = Append(handles, NewHandle(DynName, "dynamic"))
          /\ queue' = [queue EXCEPT ![t] = Len(handles) + 1]
          /\ Goto(t, "dyn_store")
          /\ UNCHANGED <<outcome, exc>>
       \/ /\ \E r \in FailureReasons("open") : RaiseRaw(t, MQMIError(r))
          /\ UNCHANGED <<handles, queue>>
    /\ UNCHANGED <<factoryVars, configVars, codecVars, lock, conns, op, dest, msg, boundVars>>

\* `self._open_dynamic_queues_cache[dynamic_queue_name] = dynamic_queue`.
StoreDynamic(t) ==
    /\ pc[t] = "dyn_store"
    /\ open_dynamic_queues_cache' =
          [open_dynamic_queues_cache EXCEPT ![handles[queue[t]].q] = queue[t]]
    /\ Return(t, handles[queue[t]].q)
    /\ UNCHANGED <<is_connected, disconnecting, open_send_queues_cache,
                   open_receive_queues_cache, mgr, configVars, codecVars, lock, transportVars,
                   op, dest, queue, calls, msg, boundVars>>

\* close_dynamic_queue: `if not self._is_connected: return`.
CloseDynamicCheck(t) ==
    /\ pc[t] = "cd_check"
    /\ IF ~is_connected
         THEN Return(t, "None")
         ELSE Goto(t, "cd_body") /\ UNCHANGED <<outcome, exc>>
    /\ UNCHANGED <<factoryVars, configVars, codecVars, lock, transportVars,
                   op, dest, queue, calls, msg, boundVars>>

\* close_dynamic_queue: the lookup, the close and the three pops.
CloseDynamicBody(t) ==
    /\ pc[t] = "cd_body"
    /\ IF open_dynamic_queues_cache[dest[t]] = NoHandle
         THEN /\ Raise(t, "KeyError", NoCodes, NoCodes)
              /\ UNCHANGED <<open_send_queues_cache, open_receive_queues_cache,
                             open_dynamic_queues_cache, handles, calls>>
         ELSE /\ Log(t, "close")
              /\ \/ /\ HandleUsable(open_dynamic_queues_cache[dest[t]])
                    /\ handles' = CloseHandle(open_dynamic_queues_cache[dest[t]])
                    /\ open_dynamic_queues_cache' =
                          [open_dynamic_queues_cache EXCEPT ![dest[t]] = NoHandle]
                    /\ open_send_queues_cache' =
                          [open_send_queues_cache EXCEPT ![dest[t]] = NoHandle]
                    /\ open_receive_queues_cache' =
                          [open_receive_queues_cache EXCEPT ![dest[t]] = NoHandle]
                    /\ Return(t, "None")
                 \/ /\ \E r \in FailureReasons("close") : RaiseRaw(t, MQMIError(r))
                    /\ UNCHANGED <<open_send_queues_cache, open_receive_queues_cache,
                                   open_dynamic_queues_cache, handles>>
    /\ UNCHANGED <<is_connected, disconnecting, mgr, configVars, codecVars, lock, conns,
                   op, dest, queue, msg, boundVars>>

\* ------------------------------------------------------------------- destroy
\* destroy is called and enters under the lock: the connected test and the
\* disconnecting mark.
DestroyBegin(t) ==
    /\ Invoke(t, "destroy", Q1, is_connected)
    /\ LockFree
    /\ IF DestroyNeeded
         THEN /\ disconnecting' = TRUE
              /\ lock' = t
              /\ Goto(t, "d_clear")
              /\ outcome' = [outcome EXCEPT ![t] = "running"]
         ELSE /\ Finish(t, "None")
              /\ UNCHANGED <<disconnecting, lock>>
    /\ UNCHANGED <<is_connected, open_send_queues_cache, open_receive_queues_cache,
                   open_dynamic_queues_cache, mgr, configVars, codecVars, transportVars>>

\* (a destroy that forgets the receive and dynamic caches)
DestroyClear_SendOnly(t) ==
    /\ pc[t] = "d_clear"
    /\ Log(t, "clear")
    /\ open_send_queues_cache' = EmptyCache
    /\ Goto(t, "d_disconnect")
    /\ UNCHANGED <<is_connected, disconnecting, open_receive_queues_cache,
                   open_dynamic_queues_cache, mgr, configVars, codecVars, lock, transportVars,
                   op, dest, queue, outcome, exc, msg, boundVars>>

\* The three cache.clear() calls.
DestroyClear(t) ==
    /\ pc[t] = "d_clear"
    /\ Log(t, "clear")
    /\ open_send_queues_cache' = EmptyCache
    /\ open_receive_queues_cache' = EmptyCache
    /\ open_dynamic_queues_cache' = EmptyCache
    /\ Goto(t, "d_disconnect")
    /\ UNCHANGED <<is_connected, disconnecting, mgr, configVars, codecVars, lock, transportVars,
                   op, dest, queue, outcome, exc, msg, boundVars>>

\* (a destroy that lets the failure of disconnect out)
DestroyDisconnect_Raises(t) ==
    /\ pc[t] = "d_disconnect"
    /\ Log(t, "disconnect")
    /\ \/ /\ ConnLive(mgr)
          /\ conns' = [conns EXCEPT ![mgr] = "disconnected"]
          /\ Goto(t, "d_flag")
          /\ UNCHANGED <<outcome, exc, lock>>
       \/ /\ \E r \in FailureReasons("disconnect") : RaiseRaw(t, MQMIError(r))
          /\ lock' = NoThread
          /\ UNCHANGED conns
    /\ UNCHANGED <<factoryVars, configVars, codecVars, handles, op, dest, queue, msg, boundVars>>

\* self.mgr.disconnect(); a failure is logged and swallowed.
DestroyDisconnect(t) ==
    /\ pc[t] = "d_disconnect"
    /\ Log(t, "disconnect")
    /\ \/ /\ ConnLive(mgr)
          /\ conns' = [conns EXCEPT ![mgr] = "disconnected"]
       \/ UNCHANGED conns
    /\ Goto(t, "d_flag")
    /\ UNCHANGED <<factoryVars, configVars, codecVars, lock, handles,
                   op, dest, queue, outcome, exc, msg, boundVars>>

\* `self._is_connected = False`, and the lock is released on return.
DestroyEnd(t) ==
    /\ pc[t] = "d_flag"
    /\ is_connected' = FALSE
    /\ lock' = NoThread
    /\ Return(t, "None")
    /\ UNCHANGED <<disconnecting, open_send_queues_cache, open_receive_queues_cache,
                   open_dynamic_queues_cache, mgr, configVars, codecVars, transportVars,
                   op, dest, queue, calls, msg, boundVars>>

\* -------------------------------------------------------------- specification
\* The steps of the methods: all but the call of send, receive,
\* open_dynamic_queue and close_dynamic_queue.
Running(t) ==
    \/ CheckConnected(t)
    \/ ConnectBegin(t)
    \/ ConnectEnd(t)
    \/ GetQueue(t)
    \/ OpenCached(t)
    \/ ReturnCached(t)
    \/ Put(t)
    \/ AfterPut(t)
    \/ Get(t)
    \/ OpenDynamic(t)
    \/ StoreDynamic(t)
    \/ CloseDynamicCheck(t)
    \/ CloseDynamicBody(t)
    \/ DestroyBegin(t)
    \/ DestroyClear(t)
    \/ DestroyDisconnect(t)
    \/ DestroyEnd(t)
Step(t) == Call(t) \/ Running(t)

\* Caller threads interleaved at every step.
Next == \E t \in Threads : Step(t)
Spec == Init /\ [][Next]_vars

\* One caller: the methods run one after another.
NextSeq == Step(MainThread)
SpecSeq == InitSeq /\ [][NextSeq]_vars

\* One caller that writes its destinations in every form, on a factory that
\* caches its send and receive handles.
InitAddressed ==
    /\ Constructed /\ DefaultTls /\ needs_mcd /\ NoTraffic
    /\ cache_open_send_queues /\ cache_open_receive_queues
    /\ budget = MaxAddressedCalls
SpecAddressed ==
    InitAddressed /\ [][CallAddressed(MainThread) \/ Running(MainThread)]_vars

\* ============================================================== wire format
\* The MQRFH2 header codec (class MQRFH2JMS) and the mapping between a
\* TextMessage, the message descriptor and the bytes put on a queue.

\* ------------------------------------------------------------- byte strings
\* A byte string (a Python 2 str) is a sequence of one-byte strings: a printable
\* ASCII character other than the quote, the backslash and the backquote stands
\* for itself, any other byte n is written \xn.  Bytes lists the 256 of them, byte n at
\* place n + 1.
Bytes ==
    LET printable ==
          <<" ", "!", "\\x34", "#", "$", "%", "&", "'", "(", ")", "*", "+", ",", "-", ".", "/",
           "0", "1", "2", "3", "4", "5", "6", "7", "8", "9", ":", ";", "<", "=", ">", "?",
           "@", "A", "B", "C", "D", "E", "F", "G", "H", "I", "J", "K", "L", "M", "N", "O",
           "P", "Q", "R", "S", "T", "U", "V", "W", "X", "Y", "Z", "[", "\\x92", "]", "^", "_",
           "\\x96", "a", "b", "c", "d", "e", "f", "g", "h", "i", "j", "k", "l", "m", "n", "o",
           "p", "q", "r", "s", "t", "u", "v", "w", "x", "y", "z", "{", "|", "}", "~">>
    IN [i \in 1..32 |-> "\\x" \o ToString(i - 1)] \o printable
         \o [i \in 1..129 |-> "\\x" \o ToString(126 + i)]
Chr(n) == Bytes[n + 1]
Ord(b) == (CHOOSE i \in 1..256 : Bytes[i] = b) - 1
\* pack("!l", n) and unpack("!l", b)[0], for 0 <= n < 2^31.
pack(n) ==
    <<Chr((n \div 16777216) % 256), Chr((n \div 65536) % 256),
      Chr((n \div 256) % 256), Chr(n % 256)>>
unpack(b) == ((Ord(b[1]) * 256 + Ord(b[2])) * 256 + Ord(b[3])) * 256 + Ord(b[4])

Min(a, b) == IF a < b THEN a ELSE b
\* s[a:b] of Python, for 0 <= a.
Slice(s, a, b) == SubSeq(s, a + 1, Min(b, Len(s)))
\* p in s, s.strip().
Contains(s, p) == \E i \in 1..(Len(s) - Len(p) + 1) : SubSeq(s, i, i + Len(p) - 1) = p
Spaces(n) == [i \in 1..n |-> " "]
Strip(s) ==
    LET keep == {i \in 1..Len(s) : s[i] # " "}
    IN IF keep = {} THEN << >>
       ELSE SubSeq(s, CHOOSE i \in keep : \A j \in keep : i <= j,
                      CHOOSE i \in keep : \A j \in keep : i >= j)

\* unicode(n) and long(text) for decimal integers.
Digit == <<"0", "1", "2", "3", "4", "5", "6", "7", "8", "9">>
RECURSIVE unicode(_)
unicode(n) ==
    IF n < 0 THEN <<"-">> \o unicode(0 - n)
    ELSE IF n < 10 THEN <<Digit[n + 1]>>
    ELSE unicode(n \div 10) \o <<Digit[(n % 10) + 1]>>
DigitValue(c) == (CHOOSE d \in 1..10 : Digit[d] = c) - 1
RECURSIVE long(_)
long(text) ==
    IF text[1] = "-" THEN 0 - long(Tail(text))
    ELSE IF Len(text) = 1 THEN DigitValue(text[1])
    ELSE long(SubSeq(text, 1, Len(text) - 1)) * 10 + DigitValue(text[Len(text)])

\* None and a present value of an optional attribute.
None == << >>
Some(v) == <<v>>

\* ------------------------------------------------------------ XML elements
\* An etree Element: tag, attributes in the order they are written, text (None
\* or a string) and child elements.
Element(tag, attrib, text, children) ==
    [tag |-> tag, attrib |-> attrib, text |-> text, children |-> children]
\* Element.items(): the (name, value) pairs of the attributes of the element.
Items(e) == e.attrib
\* The truth value of an Element: whether it has children.
ElementTruthy(e) == Len(e.children) > 0
\* Element.find(tag): the first child with that tag, None when there is none.
FindChild(e, tag) ==
    LET hits == {i \in 1..Len(e.children) : e.children[i].tag = tag}
    IN IF hits = {} THEN None
       ELSE Some(e.children[CHOOSE i \in hits : \A j \in hits : i <= j])

\* Character data written and read: & < > become entities and back
\* (xml.sax.saxutils.escape and the serialiser do the same replacement).
RECURSIVE escape(_)
escape(s) ==
    IF s = << >> THEN << >>
    ELSE (CASE s[1] = "&" -> <<"&", "a", "m", "p", ";">>
            [] s[1] = "<" -> <<"&", "l", "t", ";">>
            [] s[1] = ">" -> <<"&", "g", "t", ";">>
            [] OTHER -> <<s[1]>>) \o escape(Tail(s))
RECURSIVE unescape(_)
unescape(s) ==
    IF s = << >> THEN << >>
    ELSE IF StartsWith(s, <<"&", "a", "m", "p", ";">>)
           THEN <<"&">> \o unescape(SliceFrom(s, 5))
    ELSE IF StartsWith(s, <<"&", "l", "t", ";">>) THEN <<"<">> \o unescape(SliceFrom(s, 4))
    ELSE IF StartsWith(s, <<"&", "g", "t", ";">>) THEN <<">">> \o unescape(SliceFrom(s, 4))
    ELSE <<s[1]>> \o unescape(Tail(s))

RECURSIVE WriteAttrs(_)
WriteAttrs(attrib) ==
    IF attrib = << >> THEN << >>
    ELSE <<" ">> \o attrib[1][1] \o <<"=", "\"">> \o attrib[1][2] \o <<"\"">>
           \o WriteAttrs(Tail(attrib))
\* etree.tostring(element): `<tag attrs>text children</tag>`, or `<tag attrs />`
\* for an element with neither text nor children.
RECURSIVE tostring(_)
RECURSIVE WriteAll(_)
WriteAll(elements) ==
    IF elements = << >> THEN << >>
    ELSE tostring(elements[1]) \o WriteAll(Tail(elements))
tostring(e) ==
    IF (e.text # None /\ e.text[1] # << >>) \/ e.children # << >>
      THEN <<"<">> \o e.tag \o WriteAttrs(e.attrib) \o <<">">>
             \o (IF e.text # None THEN escape(e.text[1]) ELSE << >>)
             \o WriteAll(e.children)
             \o <<"<", "/">> \o e.tag \o <<">">>
      ELSE <<"<">> \o e.tag \o WriteAttrs(e.attrib) \o <<" ", "/", ">">>

\* etree.fromstring(raw): the parse of one well-formed element that starts at
\* position i of s, and the position after it.
RECURSIVE ReadAttrs(_, _)
ReadAttrs(s, i) ==
    IF s[i] = " " /\ s[i + 1] \notin {"/", ">", " "}
      THEN LET eq == Find(s, i + 1, {"="})
               endq == Find(s, eq + 2, {"\""})
               rest == ReadAttrs(s, endq + 1)
           IN [attrib |-> <<<<SubSeq(s, i + 1, eq - 1), SubSeq(s, eq + 2, endq - 1)>>>>
                            \o rest.attrib,
               next |-> rest.next]
      ELSE [attrib |-> << >>, next |-> Find(s, i, {"/", ">"})]
RECURSIVE ReadElement(_, _)
RECURSIVE ReadChildren(_, _)
ReadChildren(s, i) ==
    IF i > Len(s) \/ s[i] # "<" \/ s[i + 1] = "/"
      THEN [children |-> << >>, next |-> i]
      ELSE LET first == ReadElement(s, i)
               rest == ReadChildren(s, Find(s, first.next, {"<"}))
           IN [children |-> <<first.elem>> \o rest.children, next |-> rest.next]
ReadElement(s, i) ==
    LET nameEnd == Find(s, i + 1, {" ", "/", ">"})
        tag == SubSeq(s, i + 1, nameEnd - 1)
        attrs == ReadAttrs(s, nameEnd)
    IN IF s[attrs.next] = "/"
         THEN [elem |-> Element(tag, attrs.attrib, None, << >>), next |-> attrs.next + 2]
         ELSE LET textEnd == Find(s, attrs.next + 1, {"<"})
                  raw == SubSeq(s, attrs.next + 1, textEnd - 1)
                  kids == ReadChildren(s, textEnd)
              IN [elem |-> Element(tag, attrs.attrib,
                                   IF raw = << >> THEN None ELSE Some(unescape(raw)),
                                   kids.children),
                  next |-> Find(s, kids.next, {">"}) + 1]
fromstring(raw) == ReadElement(raw, 1).elem

\* ------------------------------------------------------- names and constants
TagMcd == <<"m", "c", "d">>
TagJms == <<"j", "m", "s">>
TagUsr == <<"u", "s", "r">>
TagMsd == <<"M", "s", "d">>
TagMsgbody == <<"m", "s", "g", "b", "o", "d", "y">>
TagDst == <<"D", "s", "t">>
TagTms == <<"T", "m", "s">>
TagDlv == <<"D", "l", "v">>
TagExp == <<"E", "x", "p">>
TagPri == <<"P", "r", "i">>
TagCid == <<"C", "i", "d">>
WMQ_ID_PREFIX == <<"I", "D", ":">>
NoneText == <<"N", "o", "n", "e">>

WMQ_DEFAULT_ENCODING == 273
WMQ_DEFAULT_CCSID == 1208
FIXED_PART_LENGTH == 36
FOLDER_LENGTH_MULTIPLE == 4
FOLDER_SIZE_HEADER_LENGTH == 4
DELIVERY_MODE_NON_PERSISTENT == 1
DELIVERY_MODE_PERSISTENT == 2
\* The priority of a descriptor nobody set: CMQC.MQPRI_PRIORITY_AS_Q_DEF.
MQPRI_PRIORITY_AS_Q_DEF == -1
\* _WMQ_MAX_EXPIRY_TIME = 214748364.7, in seconds: its whole part. A whole number
\* of seconds is greater than 214748364.7 exactly when it is greater than this.
WMQ_MAX_EXPIRY_TIME == 214748364
\* CMQC.MQEI_UNLIMITED.
MQEI_UNLIMITED == -1

\* The constant mcd folder:
\* <mcd><Msd>jms_text</Msd><msgbody xmlns:xsi="dummy" xsi:nil="true" /></mcd>.
mcd_folder ==
    Element(TagMcd, << >>, None,
        <<Element(TagMsd, << >>, Some(<<"j", "m", "s", "_", "t", "e", "x", "t">>), << >>),
          Element(TagMsgbody,
                  <<<<<<"x", "m", "l", "n", "s", ":", "x", "s", "i">>,
                      <<"d", "u", "m", "m", "y">>>>,
                    <<<<"x", "s", "i", ":", "n", "i", "l">>, <<"t", "r", "u", "e">>>>>>,
                  None, << >>)>>)

\* ------------------------------------------------------------------ messages
\* A user attribute of a message: its name and a string or an integer value.
StrValue(s) == [kind |-> "str", s |-> s, n |-> 0]
IntValue(n) == [kind |-> "int", s |-> << >>, n |-> n]
UserAttr(name, value) == [name |-> name, value |-> value]
\* TextMessage(): the reserved attributes the model follows and the user
\* attributes (everything dir(message) holds beyond reserved_attributes).
TextMessage(text, priority, correlation_id, expiration, delivery_mode, usr) ==
    [text |-> text, jms_priority |-> priority, jms_correlation_id |-> correlation_id,
     jms_expiration |-> expiration, jms_delivery_mode |-> delivery_mode,
     jms_destination |-> None, jms_message_id |-> None, usr |-> usr]
\* The truth value of an optional integer and of an optional string.
TruthyInt(v) == v # None /\ v[1] # 0
TruthyStr(v) == v # None /\ v[1] # << >>
\* unicode(v) of an optional integer.
UnicodeOpt(v) == IF v = None THEN NoneText ELSE unicode(v[1])

\* -------------------------------------------------------- message descriptor
\* self.mq.md(): the descriptor with the defaults of the transport library.
NewMd ==
    [Priority |-> MQPRI_PRIORITY_AS_Q_DEF,
     Persistence |-> "MQPER_PERSISTENCE_AS_Q_DEF",
     CorrelId |-> [i \in 1..24 |-> Chr(0)],
     MsgId |-> [i \in 1..24 |-> Chr(0)],
     Expiry |-> [thousands |-> 0, units |-> MQEI_UNLIMITED]]
\* The identifier the queue manager gives to a message put: "AMQ QM", then
\* bytes of every kind.
AssignedMsgId ==
    <<"A", "M", "Q", " ", "Q", "M">> \o <<Chr(204), Chr(144), Chr(10), Chr(0)>>
      \o [i \in 1..14 |-> Chr(i * 17)]

\* The expiry of _build_md for a truthy message.jms_expiration. A Python integer
\* n is held as [thousands, units], n = thousands * 1000 + units, because
\* expirations near the maximum are wider than 32 bits:
\*   jms_expiration / 1000 is `thousands` (integer division of two integers),
\*   jms_expiration / 10   is thousands * 100 + units \div 10.
MdExpiry(thousands, units) ==
    IF thousands > WMQ_MAX_EXPIRY_TIME
      THEN [thousands |-> 0, units |-> MQEI_UNLIMITED]
      ELSE [thousands |-> thousands \div 10,
            units |-> (thousands % 10) * 100 + units \div 10]

HexDigit == <<"0", "1", "2", "3", "4", "5", "6", "7", "8", "9",
              "a", "b", "c", "d", "e", "f">>
HexValue(c) ==
    LET upper == <<"0", "1", "2", "3", "4", "5", "6", "7", "8", "9",
                   "A", "B", "C", "D", "E", "F">>
    IN (CHOOSE d \in 1..16 : HexDigit[d] = c \/ upper[d] = c) - 1
\* (an unhexlify that takes the two digits of a byte the wrong way round)
unhexlify_Swapped(hex) ==
    [i \in 1..(Len(hex) \div 2) |-> Chr(HexValue(hex[2 * i]) * 16 + HexValue(hex[2 * i - 1]))]
\* unhexlify(hex): one byte for every two hex digits.
unhexlify(hex) ==
    [i \in 1..(Len(hex) \div 2) |-> Chr(HexValue(hex[2 * i - 1]) * 16 + HexValue(hex[2 * i]))]
\* hexlify(data): two hex digits, in lower case, for every byte.
hexlify(data) ==
    [i \in 1..(2 * Len(data)) |->
        IF i % 2 = 1 THEN HexDigit[(Ord(data[(i + 1) \div 2]) \div 16) + 1]
        ELSE HexDigit[(Ord(data[i \div 2]) % 16) + 1]]
\* unhexlify_wmq_id(wmq_id): the identifier without its "ID:" marker, as bytes.
unhexlify_wmq_id(wmq_id) == unhexlify(SliceFrom(wmq_id, Len(WMQ_ID_PREFIX)))
\* s.ljust(24)[:24].
Ljust24(s) == Slice(s \o Spaces(24 - Len(s)), 0, 24)

\* _build_md: whether the delivery mode of the message is refused.
BadDeliveryMode(message) ==
    /\ TruthyInt(message.jms_delivery_mode)
    /\ message.jms_delivery_mode[1]
          \notin {DELIVERY_MODE_NON_PERSISTENT, DELIVERY_MODE_PERSISTENT}
\* `if message.jms_priority: md.Priority = message.jms_priority`.
MdPriority(message) ==
    IF TruthyInt(message.jms_priority) THEN message.jms_priority[1] ELSE NewMd.Priority
\* _build_md(message), for a message whose delivery mode is accepted.
build_md(message) ==
    [Priority |-> MdPriority(message),
     Persistence |->
        IF ~TruthyInt(message.jms_delivery_mode) THEN NewMd.Persistence
        ELSE IF message.jms_delivery_mode[1] = DELIVERY_MODE_NON_PERSISTENT
               THEN "MQPER_NOT_PERSISTENT"
        ELSE "MQPER_PERSISTENT",
     CorrelId |->
        IF ~TruthyStr(message.jms_correlation_id) THEN NewMd.CorrelId
        ELSE IF StartsWith(message.jms_correlation_id[1], WMQ_ID_PREFIX)
               THEN unhexlify_wmq_id(message.jms_correlation_id[1])
        ELSE Ljust24(message.jms_correlation_id[1]),
     MsgId |-> NewMd.MsgId,
     Expiry |->
        IF ~TruthyInt(message.jms_expiration) THEN NewMd.Expiry
        ELSE MdExpiry(message.jms_expiration[1] \div 1000,
                      message.jms_expiration[1] % 1000)]

\* ----------------------------------------------------------------- MQRFH2JMS
\* (a padding that leaves the folder as it is)
pad_folder_None(folder) == folder
\* _pad_folder(folder): spaces up to the next multiple of 4.
pad_folder(folder) ==
    IF Len(folder) % FOLDER_LENGTH_MULTIPLE = 0 THEN folder
    ELSE folder \o Spaces(FOLDER_LENGTH_MULTIPLE - (Len(folder) % FOLDER_LENGTH_MULTIPLE))

Leaf(tag, text) == Element(tag, << >>, Some(text), << >>)
\* add_jms(message, queue_name, now): the jms folder.
add_jms(message, queue_name, now) ==
    Element(TagJms, << >>, None,
        <<Leaf(TagDst, QueueUri \o queue_name),
          Leaf(TagTms, unicode(now)),
          Leaf(TagDlv, UnicodeOpt(message.jms_delivery_mode))>>
        \o (IF TruthyInt(message.jms_expiration)
              THEN <<Leaf(TagExp, unicode(now + message.jms_expiration[1]))>> ELSE << >>)
        \o (IF TruthyInt(message.jms_priority)
              THEN <<Leaf(TagPri, unicode(message.jms_priority[1]))>> ELSE << >>)
        \o (IF TruthyStr(message.jms_correlation_id)
              THEN <<Leaf(TagCid, message.jms_correlation_id[1])>> ELSE << >>))

\* add_usr(message): one child per user attribute, a string value escaped before
\* it becomes the text of the child; no folder without user attributes.
UsrChild(attr) ==
    Leaf(attr.name, IF attr.value.kind = "str" THEN escape(attr.value.s)
                    ELSE unicode(attr.value.n))
\* (an add_usr that makes the usr folder for every message)
add_usr_Always(message) ==
    Some(Element(TagUsr, << >>, None,
                 [i \in 1..Len(message.usr) |-> UsrChild(message.usr[i])]))
add_usr(message) ==
    IF message.usr = << >> THEN None
    ELSE Some(Element(TagUsr, << >>, None,
                      [i \in 1..Len(message.usr) |-> UsrChild(message.usr[i])]))

\* self.folders after build_header has filled it: tag -> Element.
SentFolders(needsMcd, message, queue_name, now) ==
    LET jms == [t \in {TagJms} |-> add_jms(message, queue_name, now)]
        mcd == IF needsMcd THEN [t \in {TagMcd} |-> mcd_folder] ELSE << >>
        usr == IF add_usr(message) = None THEN << >>
               ELSE [t \in {TagUsr} |-> add_usr(message)[1]]
    IN mcd @@ jms @@ usr

\* A folder on the wire: its 4-byte length and its padded text.
WriteFolder(folders, tag) ==
    IF tag \in DOMAIN folders
      THEN pack(Len(pad_folder(tostring(folders[tag])))) \o pad_folder(tostring(folders[tag]))
      ELSE << >>
FolderLen(folders, tag) ==
    IF tag \in DOMAIN folders THEN Len(pad_folder(tostring(folders[tag]))) ELSE 0

\* build_header(message, queue_name, CMQC, now): the fixed part, then mcd, jms, usr.
build_header(needsMcd, message, queue_name, now) ==
    LET folders == SentFolders(needsMcd, message, queue_name, now)
        variable_part_length ==
            Cardinality(DOMAIN folders) * 4 + FolderLen(folders, TagMcd)
              + FolderLen(folders, TagJms) + FolderLen(folders, TagUsr)
        total_header_length == FIXED_PART_LENGTH + variable_part_length
    IN <<"R", "F", "H", " ">> \o pack(2) \o pack(total_header_length)
         \o pack(WMQ_DEFAULT_ENCODING) \o pack(WMQ_DEFAULT_CCSID)
         \o <<"M", "Q", "S", "T", "R", " ", " ", " ">> \o pack(0)
         \o pack(WMQ_DEFAULT_CCSID)
         \o WriteFolder(folders, TagMcd) \o WriteFolder(folders, TagJms)
         \o WriteFolder(folders, TagUsr)

\* s.replace(old, new).
RECURSIVE Replace(_, _, _)
Replace(s, old, new) ==
    IF s = << >> THEN << >>
    ELSE IF StartsWith(s, old) THEN new \o Replace(SliceFrom(s, Len(old)), old, new)
    ELSE <<s[1]>> \o Replace(Tail(s), old, new)
XsiNil == <<"x", "s", "i", ":", "n", "i", "l", "=", "\"", "t", "r", "u", "e", "\"">>
Xmlns == <<"x", "m", "l", "n", "s">>
XmlnsXsiDummy ==
    <<"x", "m", "l", "n", "s", ":", "x", "s", "i", "=", "\"", "d", "u", "m", "m", "y", "\"", " ">>

\* (a decoder that keeps the mcd folder whatever needs_mcd is, and psc folders)
RootNames_More(needsMcd) == {TagJms, TagUsr, TagMcd, <<"p", "s", "c">>}
\* `root_names = ["jms", "usr"]`, and "mcd" with needs_mcd.
RootNames(needsMcd) == {TagJms, TagUsr} \cup (IF needsMcd THEN {TagMcd} ELSE {})

\* build_folder(raw_folder): self.folders with the parsed folder stored under its
\* root tag, when the tag is one of root_names.
build_folder(needsMcd, raw_folder, folders) ==
    LET bound == IF Contains(raw_folder, XsiNil) /\ ~Contains(raw_folder, Xmlns)
                   THEN Replace(raw_folder, XsiNil, XmlnsXsiDummy \o XsiNil)
                   ELSE raw_folder
        folder == fromstring(bound)
    IN IF folder.tag \in RootNames(needsMcd)
         THEN [t \in {folder.tag} |-> folder] @@ folders
         ELSE folders

\* The `while left:` loop of build_folders_and_payload_from_message:
\* self.folders when it ends, and the raw_folder that each iteration logged. It
\* ends with the error of etree.fromstring when a raw folder is empty.
RECURSIVE ReadFolders(_, _, _)
ReadFolders(needsMcd, left, read) ==
    IF left = << >> THEN read
    ELSE LET current_folder_length == unpack(Slice(left, 0, 4))
             raw_folder == Slice(left, FOLDER_SIZE_HEADER_LENGTH,
                                 FOLDER_SIZE_HEADER_LENGTH + current_folder_length)
         IN IF raw_folder = << >>
              THEN [folders |-> read.folders,
                    raw_folders |-> Append(read.raw_folders, raw_folder),
                    error |-> "ParseError"]
              ELSE ReadFolders(needsMcd,
                     SliceFrom(left, FOLDER_SIZE_HEADER_LENGTH + current_folder_length),
                     [folders |-> build_folder(needsMcd, raw_folder, read.folders),
                      raw_folders |-> Append(read.raw_folders, raw_folder),
                      error |-> read.error])

\* (a decoder that takes everything behind the fixed part for the payload)
build_folders_and_payload_from_message_FixedOnly(needsMcd, message) ==
    [folders |-> << >>, raw_folders |-> << >>, error |-> "none",
     payload |-> SliceFrom(message, FIXED_PART_LENGTH)]
\* build_folders_and_payload_from_message(message): the folders, the payload, and
\* the raw folders the loop went through.
build_folders_and_payload_from_message(needsMcd, message) ==
    LET total_mqrfh2_length == unpack(Slice(message, 8, 12))
        mqrfh2 == Slice(message, FIXED_PART_LENGTH, total_mqrfh2_length)
        read == ReadFolders(needsMcd, mqrfh2,
                            [folders |-> << >>, raw_folders |-> << >>, error |-> "none"])
    IN [folders |-> read.folders,
        raw_folders |-> read.raw_folders,
        error |-> read.error,
        payload |-> SliceFrom(message, FIXED_PART_LENGTH + Len(mqrfh2))]

\* (a mapping that takes every persistence it does not know for persistent)
BadPersistence_Never(md) == FALSE
\* _build_text_message: whether md.Persistence is one it cannot map.
BadPersistence(md) ==
    md.Persistence \notin
        {"MQPER_NOT_PERSISTENT", "MQPER_PERSISTENT", "MQPER_PERSISTENCE_AS_Q_DEF"}

\* `usr_folder.items()`.
UsrItems(usr_folder) == Items(usr_folder)

\* _build_text_message(md, message), for a descriptor whose persistence it maps.
build_text_message(needsMcd, md, message) ==
    LET mqrfh2 == build_folders_and_payload_from_message(needsMcd, message)
        folders == mqrfh2.folders
        has_jms == TagJms \in DOMAIN folders /\ ElementTruthy(folders[TagJms])
        has_usr == TagUsr \in DOMAIN folders /\ ElementTruthy(folders[TagUsr])
        child(tag) == FindChild(folders[TagJms], tag)
    IN [text |-> IF mqrfh2.payload # << >> THEN Some(mqrfh2.payload) ELSE None,
        usr |-> IF has_usr
                  THEN [i \in 1..Len(UsrItems(folders[TagUsr])) |->
                          UserAttr(UsrItems(folders[TagUsr])[i][1],
                                   StrValue(UsrItems(folders[TagUsr])[i][2]))]
                  ELSE << >>,
        jms_destination |->
            IF has_jms /\ child(TagDst) # None
              THEN Some(Strip(child(TagDst)[1].text[1])) ELSE None,
        jms_expiration |->
            IF ~has_jms THEN None
            ELSE IF child(TagExp) # None THEN Some(long(child(TagExp)[1].text[1]))
            ELSE Some(0),
        jms_correlation_id |->
            IF has_jms /\ child(TagCid) # None THEN child(TagCid)[1].text ELSE None,
        jms_delivery_mode |->
            IF md.Persistence = "MQPER_NOT_PERSISTENT"
              THEN Some(DELIVERY_MODE_NON_PERSISTENT)
              ELSE Some(DELIVERY_MODE_PERSISTENT),
        jms_priority |-> Some(md.Priority),
        jms_message_id |-> Some(WMQ_ID_PREFIX \o hexlify(md.MsgId))]

\* ------------------------------------------------ one message sent and received
\* The messages, destinations and clock readings a caller sends with.
Texts == {None, Some(<<"h", "i">>)}
Priorities == {None, Some(0), Some(4), Some(9)}
CorrelationIds == {None, Some(<<"c", "1">>), Some(<<"a", "&", "b">>)}
Expirations == {None, Some(500)}
DeliveryModes == {Some(DELIVERY_MODE_NON_PERSISTENT), Some(DELIVERY_MODE_PERSISTENT), Some(3)}
UserAttrFoo == UserAttr(<<"f", "o", "o">>, StrValue(<<"b", "<", "r">>))
UserAttrN == UserAttr(<<"n">>, IntValue(12))
UserAttrSets == {<< >>, <<UserAttrFoo>>, <<UserAttrFoo, UserAttrN>>, <<UserAttrN, UserAttrFoo>>}
QueueName == <<"T", ".", "Q">>
Destinations ==
    {QueueName, QueueUri \o QueueName, QueueUriWithManager \o <<"Q", "M", "/">> \o QueueName}
Clock == {1700}

\* The caller has a message to send and the transport carries nothing yet.
Sending ==
    /\ stage = "build_md"
    /\ snd_message \in
          {TextMessage(x, p, c, e, d, u) :
             x \in Texts, p \in Priorities, c \in CorrelationIds,
             e \in Expirations, d \in DeliveryModes, u \in UserAttrSets}
          \cup
          \* correlation identifiers of 24 bytes in the form the queue manager
          \* gives them, one with its hex digits in upper case; these messages
          \* also come with an expiration of 0
          {TextMessage(Some(<<"h", "i">>), Some(4), Some(WMQ_ID_PREFIX \o c), e,
                       Some(DELIVERY_MODE_PERSISTENT), << >>) :
             c \in {<<"4", "1", "4", "d", "5", "1", "2", "0", "c", "c", "9", "0">>
                      \o [i \in 1..36 |-> IF i % 2 = 1 THEN "0" ELSE "a"],
                    <<"4", "1", "4", "D", "5", "1", "F", "F", "0", "0", "7", "E">>
                      \o [i \in 1..36 |-> IF i % 3 = 1 THEN "B" ELSE "9"]},
             e \in Expirations \cup {Some(0)}}
    /\ snd_destination \in Destinations
    /\ snd_now \in Clock
    /\ snd_md = None
    /\ snd_body = None
    /\ sent_message = None
    /\ rcv_mqrfh2 = None
    /\ rcv_message = None
    /\ exp_message = None
    /\ exp_md = None

\* A message as another application writes it: the fixed part with the total
\* length at bytes 8..11, every folder behind the 4 bytes of its length, and the
\* payload.
ForeignBody(folders, payload) ==
    LET blocks[n \in 0..Len(folders)] ==
            IF n = 0 THEN << >>
            ELSE blocks[n - 1] \o pack(Len(folders[n])) \o folders[n]
    IN <<"R", "F", "H", " ">> \o pack(2)
         \o pack(FIXED_PART_LENGTH + Len(blocks[Len(folders)]))
         \o pack(WMQ_DEFAULT_ENCODING) \o pack(WMQ_DEFAULT_CCSID)
         \o <<"M", "Q", "S", "T", "R", " ", " ", " ">> \o pack(0)
         \o pack(WMQ_DEFAULT_CCSID)
         \o blocks[Len(folders)] \o payload

\* A message of another application is on the queue: `queue.get(None, md, gmo)`
\* of receive will fill md with its descriptor and return its bytes. The header
\* has no folder, or jms alone, or mcd, jms and usr, or a psc folder before,
\* between or after jms and usr, or a folder of length 0 between them; the
\* persistence is any of the four of CMQC.
Arrived ==
    LET text(e) == pad_folder(tostring(e))
        jms == text(Element(TagJms, << >>, None, <<Leaf(TagDst, QueueUri \o <<"T", ".", "Q">>)>>))
        usr == text(Element(TagUsr, << >>, None, <<Leaf(<<"k">>, <<"v">>)>>))
        psc == text(Element(<<"p", "s", "c">>, << >>, None, <<Leaf(<<"T">>, <<"a">>)>>))
        mcd == text(mcd_folder)
    IN /\ stage = "arrived"
       /\ snd_message = None /\ snd_destination = None /\ snd_now = 0
       /\ snd_md \in {[NewMd EXCEPT !.Priority = 4, !.Persistence = p,
                                      !.MsgId = AssignedMsgId] :
                         p \in {"MQPER_NOT_PERSISTENT", "MQPER_PERSISTENT",
                                 "MQPER_PERSISTENCE_AS_Q_DEF", "MQPER_PERSISTENCE_AS_PARENT"}}
       /\ snd_body \in {ForeignBody(f, x) :
                           f \in {<< >>, <<jms>>, <<mcd, jms, usr>>, <<jms, psc, usr>>,
                                   <<psc, jms>>, <<jms, usr, psc>>, <<jms, << >>, usr>>},
                           x \in {<< >>, <<"h", "i">>}}
       /\ sent_message = None /\ rcv_mqrfh2 = None /\ rcv_message = None
       /\ exp_message = None /\ exp_md = None

\* send: `md = self._build_md(message)`; JMSException for a delivery mode that is
\* neither of the two.
BuildMd ==
    /\ stage = "build_md"
    /\ IF BadDeliveryMode(snd_message)
         THEN stage' = "JMSException" /\ UNCHANGED snd_md
         ELSE stage' = "build_header" /\ snd_md' = build_md(snd_message)
    /\ UNCHANGED <<snd_message, snd_destination, snd_now, snd_body, rcv_message>>
    /\ UNCHANGED <<sent_message, rcv_mqrfh2, exp_message, exp_md>>
    /\ UNCHANGED <<factoryVars, configVars, lock, transportVars, threadVars, boundVars>>

\* send: the MQRFH2 header, built for the destination without its prefixes and
\* followed by the text of the message, and the put, which leaves the identifier
\* of the message in md.MsgId.
BuildBody ==
    /\ stage = "build_header"
    /\ snd_body' = build_header(needs_mcd, snd_message,
                                strip_prefixes_from_destination(snd_destination), snd_now)
                     \o (IF snd_message.text # None THEN snd_message.text[1] ELSE << >>)
    /\ snd_md' = [snd_md EXCEPT !.MsgId = AssignedMsgId]
    /\ stage' = "put"
    /\ UNCHANGED <<snd_message, snd_destination, snd_now, rcv_message>>
    /\ UNCHANGED <<sent_message, rcv_mqrfh2, exp_message, exp_md>>
    /\ UNCHANGED <<factoryVars, configVars, lock, transportVars, threadVars, boundVars>>

\* send, after the put: the JMS headers of the message overwritten from the
\* descriptor, and now added to an expiration that is not None.
Enrich ==
    /\ stage = "put"
    /\ sent_message' =
          [snd_message EXCEPT
              !.jms_message_id = Some(WMQ_ID_PREFIX \o hexlify(snd_md.MsgId)),
              !.jms_priority = Some(snd_md.Priority),
              !.jms_correlation_id = Some(WMQ_ID_PREFIX \o hexlify(snd_md.CorrelId)),
              !.jms_expiration = IF @ # None THEN Some(@[1] + snd_now) ELSE None]
    /\ stage' = "sent"
    /\ UNCHANGED <<snd_message, snd_destination, snd_now, snd_md, snd_body, rcv_message>>
    /\ UNCHANGED <<rcv_mqrfh2, exp_message, exp_md>>
    /\ UNCHANGED <<factoryVars, configVars, lock, transportVars, threadVars, boundVars>>

\* receive: the get hands over the bytes and the descriptor of the message on
\* the queue, and _build_text_message turns them into a message.
BuildTextMessage ==
    /\ stage \in {"sent", "arrived"}
    /\ rcv_mqrfh2' = build_folders_and_payload_from_message(needs_mcd, snd_body)
    /\ IF rcv_mqrfh2'.error # "none"
         THEN stage' = rcv_mqrfh2'.error /\ UNCHANGED rcv_message
         ELSE IF BadPersistence(snd_md)
         THEN stage' = "WebSphereMQJMSException" /\ UNCHANGED rcv_message
         ELSE /\ stage' = IF stage = "sent" THEN "received" ELSE "decoded"
              /\ rcv_message' = build_text_message(needs_mcd, snd_md, snd_body)
    /\ UNCHANGED <<snd_message, snd_destination, snd_now, snd_md, snd_body, sent_message>>
    /\ UNCHANGED <<exp_message, exp_md>>
    /\ UNCHANGED <<factoryVars, configVars, lock, transportVars, threadVars, boundVars>>

\* One message followed from the send of one caller, or from the put of another
\* application, to the receive of a caller, on a factory that stays as it was
\* constructed.
InitCodec ==
    /\ Constructed /\ DefaultTls
    /\ cache_open_send_queues /\ cache_open_receive_queues
    /\ budget = 0
    /\ Sending \/ Arrived
NextCodec == BuildMd \/ BuildBody \/ Enrich \/ BuildTextMessage
SpecCodec == InitCodec /\ [][NextCodec]_vars

\* ------------------------------------------------- the expiry of one message
\* _build_md, lines 666-670, for a message whose jms_expiration is a positive
\* integer of up to twelve digits.
BuildMdExpiry ==
    /\ exp_message # None /\ exp_md = None
    /\ exp_md' = Some(MdExpiry(exp_message[1].thousands, exp_message[1].units))
    /\ UNCHANGED <<stage, snd_message, snd_destination, snd_now, snd_md, snd_body,
                   sent_message, rcv_mqrfh2, rcv_message, exp_message>>
    /\ UNCHANGED <<factoryVars, configVars, lock, transportVars, threadVars, boundVars>>

\* A factory as constructed and a message with an expiration around one
\* second, around 2^31 centiseconds and around the maximum.
InitExpiry ==
    /\ Constructed /\ DefaultTls /\ needs_mcd
    /\ cache_open_send_queues /\ cache_open_receive_queues
    /\ budget = 0
    /\ stage = "off" /\ snd_message = None /\ snd_destination = None /\ snd_now = 0
    /\ snd_md = None /\ snd_body = None /\ sent_message = None
    /\ rcv_mqrfh2 = None /\ rcv_message = None
    /\ exp_message \in
          {Some([thousands |-> k, units |-> u]) :
             k \in {0, 1, 21474836, 21474837, 214748364, 214748365, 999999999},
             u \in {1, 9, 10, 470, 480, 699, 700, 701, 999}}
    /\ exp_md = None
SpecExpiry == InitExpiry /\ [][BuildMdExpiry]_vars

\* =================================================================== claims
AllThreadFields(t) ==
    <<pc[t], op[t], dest[t], queue[t], outcome[t], calls[t], msg[t], exc[t]>>
\* Thread t is idle and this step is its invocation of a method.
CallStep(t) == pc[t] = "idle" /\ AllThreadFields(t)' # AllThreadFields(t)
\* This step is thread t leaving program location p.
Leaves(t, p) == pc[t] = p /\ pc'[t] # p
CachesEmpty ==
    /\ open_send_queues_cache = EmptyCache
    /\ open_receive_queues_cache = EmptyCache
    /\ open_dynamic_queues_cache = EmptyCache
Established == {c \in 1..Len(conns) : conns[c] = "connected"}

\* C1: with caching enabled, a handle is opened for a destination in a role only
\* while that role's cache holds no handle for it, under every interleaving: two
\* callers never both find the destination absent and both open a handle.
C1_OneOpenPerDestination ==
    [][\A t \in Threads :
          (Leaves(t, "open_cached") /\ Len(handles') > Len(handles))
             => CacheOf(Role(t))[dest[t]] = NoHandle]_vars

\* C2: with send caching on and one caller, a send opens a handle only when the
\* send cache has none for the destination, every put goes through the handle the
\* cache holds, and an entry of the send cache changes only in destroy or
\* close_dynamic_queue (never in a send, whether its put succeeds or fails).
C2_SendCacheShared ==
    /\ [][\A t \in Threads :
            (cache_open_send_queues /\ op[t] = "send" /\ Leaves(t, "open_cached")
               /\ Len(handles') > Len(handles))
              => open_send_queues_cache[dest[t]] = NoHandle]_vars
    /\ [][\A d \in Dests :
            (open_send_queues_cache[d] # NoHandle
               /\ open_send_queues_cache'[d] # open_send_queues_cache[d])
              => \E t \in Threads : Leaves(t, "d_clear") \/ Leaves(t, "cd_body")]_vars
    /\ [](\A t \in Threads :
            (cache_open_send_queues /\ op[t] = "send" /\ pc[t] \in {"io", "after_put"})
              => /\ queue[t] # NoHandle
                 /\ queue[t] = open_send_queues_cache[dest[t]])

\* Three sends by one caller, one of them with a failed put, and one handle opened.
C2_Witness ==
    /\ cache_open_send_queues
    /\ ncalls = 3
    /\ Len(handles) = 1
    /\ op[MainThread] = "send" /\ pc[MainThread] = "idle"
    /\ outcome[MainThread] = "None"
    /\ calls[MainThread] = <<"put">>
    /\ open_send_queues_cache[dest[MainThread]] = 1

\* C3: _connect on a connected factory calls nothing on the transport, a
\* connection is established only while the factory is not connected, and as long
\* as no teardown has begun at most one connection has been established, under
\* every interleaving of send, receive and open_dynamic_queue.
C3_ConnectOnce ==
    /\ [][\A t \in Threads :
            (Leaves(t, "connect") /\ is_connected)
              => /\ UNCHANGED <<conns, mgr, handles>>
                 /\ calls'[t] = calls[t]]_vars
    /\ [][Established' # Established /\ Established' \ Established # {}
            => ~is_connected]_vars
    /\ [](~disconnecting => Cardinality(Established) <= 1)

\* A caller that found the factory disconnected is about to enter _connect while
\* another caller has connected it meanwhile.
C3_Witness ==
    \E t \in Threads :
        /\ pc[t] = "connect"
        /\ is_connected /\ ~disconnecting
        /\ Cardinality(Established) = 1

\* C4: send, receive or open_dynamic_queue invoked while self._disconnecting is
\* set returns None at once: no transport call, no change to the factory, the
\* caches, the lock or the transport, and the message as the caller passed it.
AbortingOps == {"send", "receive", "open_dynamic_queue"}
C4_AbortsWhileDisconnecting ==
    [][\A t \in Threads :
          (CallStep(t) /\ disconnecting /\ op'[t] \in AbortingOps)
            => /\ pc'[t] = "idle"
               /\ outcome'[t] = "None"
               /\ calls'[t] = << >>
               /\ msg'[t] = NewMessage
               /\ UNCHANGED <<factoryVars, lock, transportVars>>]_vars

\* A call aborted while another thread is in the middle of destroy.
C4_Witness ==
    \E t \in Threads, u \in Threads :
        /\ op[t] \in AbortingOps /\ pc[t] = "idle"
        /\ outcome[t] = "None" /\ calls[t] = << >>
        /\ disconnecting
        /\ lock = u /\ pc[u] \in {"d_clear", "d_disconnect", "d_flag"}

\* C5: a put never executes on a connection that destroy has already
\* disconnected.
C5_NoPutAfterDisconnect ==
    [][\A t \in Threads :
          (op[t] = "send" /\ Leaves(t, "io"))
            => conns[handles[queue[t]].conn] # "disconnected"]_vars

\* C6: destroy by one caller never raises: whether the transport disconnect
\* succeeds or fails, destroy returns None and leaves the factory not connected
\* with the send, receive and dynamic caches empty.
C6_DestroyNeverRaises ==
    \A t \in Threads :
        (op[t] = "destroy" /\ pc[t] = "idle")
          => /\ outcome[t] = "None"
             /\ ~is_connected
             /\ CachesEmpty

\* destroy has returned although its disconnect failed: the connection is still
\* up on the transport side.
C6_Witness ==
    \E t \in Threads :
        /\ op[t] = "destroy" /\ pc[t] = "idle"
        /\ calls[t] = <<"clear", "disconnect">>
        /\ conns[mgr] = "connected"
        /\ Len(handles) > 0

\* C7: destroy called on a factory that is not connected returns None with no
\* transport call and no change to the factory, the caches, the lock or the
\* transport.
C7_DestroyIdempotent ==
    [][\A t \in Threads :
          (CallStep(t) /\ op'[t] = "destroy" /\ ~is_connected)
            => /\ pc'[t] = "idle"
               /\ outcome'[t] = "None"
               /\ calls'[t] = << >>
               /\ UNCHANGED <<factoryVars, lock, transportVars>>]_vars

\* A second destroy has returned on a factory an earlier destroy tore down.
C7_Witness ==
    \E t \in Threads :
        /\ op[t] = "destroy" /\ pc[t] = "idle"
        /\ outcome[t] = "None" /\ calls[t] = << >>
        /\ disconnecting /\ ~is_connected
        /\ \E c \in 1..Len(conns) : conns[c] = "disconnected"

\* C8: in destroy on a connected factory the clearing step empties the three
\* caches, the transport disconnect is invoked only after that step, and
\* self._is_connected is cleared only after the disconnect attempt.
C8_TeardownOrder ==
    /\ [][\A t \in Threads : Leaves(t, "d_clear") => CachesEmpty']_vars
    /\ [][\A t \in Threads :
            (op[t] = "destroy" /\ calls'[t] # calls[t] /\ calls'[t] # << >>
               /\ calls'[t][Len(calls'[t])] = "disconnect")
              => calls[t] = <<"clear">>]_vars
    /\ [][(is_connected /\ ~is_connected')
            => \E t \in Threads :
                  /\ op[t] = "destroy"
                  /\ calls[t] = <<"clear", "disconnect">>
                  /\ pc[t] # "idle" /\ pc'[t] = "idle"]_vars

\* destroy has cleared caches that held handles and attempted the disconnect; the
\* connected flag is still set.
C8_Witness ==
    \E t \in Threads :
        /\ pc[t] = "d_flag"
        /\ calls[t] = <<"clear", "disconnect">>
        /\ is_connected
        /\ CachesEmpty
        /\ Len(handles) > 0

\* C9: a destroy that started on a connected factory ends with the factory
\* neither connected nor marked as disconnecting.
C9_DestroyEndsDisconnected ==
    \A t \in Threads :
        (op[t] = "destroy" /\ pc[t] = "idle" /\ calls[t] # << >>)
          => ~is_connected /\ ~disconnecting

\* C10: with send caching off the send cache stays empty, a send puts on a
\* handle it has opened itself in this call and shares with nobody, and a send
\* that returns has closed that handle after its put.
C10_UncachedSend ==
    ~cache_open_send_queues =>
        /\ open_send_queues_cache = EmptyCache
        /\ \A t \in Threads :
            op[t] = "send" =>
              /\ pc[t] \in {"io", "after_put"} =>
                    /\ queue[t] \in 1..Len(handles)
                    /\ handles[queue[t]].q = dest[t]
                    /\ handles[queue[t]].role = "send"
                    /\ handles[queue[t]].open
                    /\ calls[t][Len(calls[t]) - (IF pc[t] = "io" THEN 0 ELSE 1)] = "open"
                    /\ \A u \in Threads \ {t} : queue[u] # queue[t]
              /\ (pc[t] = "idle" /\ outcome[t] = "None" /\ calls[t] # << >>) =>
                    /\ Len(calls[t]) >= 3
                    /\ SubSeq(calls[t], Len(calls[t]) - 2, Len(calls[t]))
                          = <<"open", "put", "close">>
                    /\ queue[t] \in 1..Len(handles)
                    /\ ~handles[queue[t]].open

\* Two sends have returned without caching: two handles were opened and both are
\* closed.
C10_Witness ==
    /\ ~cache_open_send_queues
    /\ Len(handles) = 2
    /\ \A h \in 1..2 : handles[h].role = "send" /\ ~handles[h].open
    /\ \E t \in Threads : op[t] = "send" /\ pc[t] = "idle" /\ outcome[t] = "None"

\* C11: with caching off for the role of a send or a receive, the handle the
\* operation opened is closed by the time the operation has finished, whether it
\* returned or raised.
C11_UncachedHandleClosed ==
    \A t \in Threads :
        (op[t] \in {"send", "receive"} /\ ~CachingOn(Role(t))
           /\ pc[t] = "idle" /\ queue[t] # NoHandle)
          => ~handles[queue[t]].open

\* C12: a close_dynamic_queue whose name is not in the dynamic cache raises
\* nothing: it returns None (so closing a name a second time succeeds as well).
C12_CloseAbsentIsQuiet ==
    [][\A t \in Threads :
          (op'[t] = "close_dynamic_queue" /\ pc'[t] = "idle"
             /\ AllThreadFields(t)' # AllThreadFields(t)
             /\ open_dynamic_queues_cache[dest'[t]] = NoHandle)
            => outcome'[t] = "None"]_vars

\* The handles the three caches hold under destination d.
CachedUnder(d) ==
    {open_dynamic_queues_cache[d], open_send_queues_cache[d],
     open_receive_queues_cache[d]} \ {NoHandle}

\* C13: when close_dynamic_queue(name) completes on a connected factory, name is
\* in none of the three caches and every handle that was cached under name, as a
\* dynamic, send or receive handle, has been closed.
C13_CloseDynamicClosesAll ==
    [][\A t \in Threads :
          (Leaves(t, "cd_body") /\ outcome'[t] = "None")
            => /\ open_dynamic_queues_cache'[dest[t]] = NoHandle
               /\ open_send_queues_cache'[dest[t]] = NoHandle
               /\ open_receive_queues_cache'[dest[t]] = NoHandle
               /\ \A h \in CachedUnder(dest[t]) : ~handles'[h].open]_vars

\* The errors of the messaging layer.
TypedErrors == {"JMSException", "WebSphereMQJMSException", "NoMessageAvailableException"}

\* C14: a native failure of the transport during send, receive or
\* open_dynamic_queue reaches the caller as a typed error, never as the raw
\* MQMIError, and the generic error carries the completion and reason codes of
\* the native failure.
C14_NativeFailuresTyped ==
    \A t \in Threads :
        (op[t] \in AbortingOps /\ pc[t] = "idle" /\ exc[t].native # NoCodes)
          => /\ outcome[t] \in TypedErrors
             /\ outcome[t] = "WebSphereMQJMSException" => exc[t].carried = exc[t].native

Last(s) == s[Len(s)]

\* C15: a receive whose get was invoked raises NoMessageAvailableException exactly
\* when the get failed with the no-message reason code; a get that failed with
\* another reason raises WebSphereMQJMSException with the codes of the failure; a
\* get that succeeded returns the message. No other call raises
\* NoMessageAvailableException.
C15_NoMessageMapping ==
    \A t \in Threads :
        /\ (op[t] = "receive" /\ pc[t] = "idle" /\ calls[t] # << >>
              /\ Last(calls[t]) = "get")
             => /\ outcome[t] = "NoMessageAvailableException"
                    <=> exc[t].native.reason = MQRC_NO_MSG_AVAILABLE
                /\ (exc[t].native # NoCodes
                      /\ exc[t].native.reason # MQRC_NO_MSG_AVAILABLE)
                     => /\ outcome[t] = "WebSphereMQJMSException"
                        /\ exc[t].carried = exc[t].native
                /\ exc[t].native = NoCodes => outcome[t] = "TextMessage"
        /\ outcome[t] = "NoMessageAvailableException"
             => op[t] = "receive" /\ calls[t] # << >> /\ Last(calls[t]) = "get"

\* A receive on an open handle has found no message.
C15_Witness ==
    \E t \in Threads :
        /\ op[t] = "receive" /\ pc[t] = "idle"
        /\ outcome[t] = "NoMessageAvailableException"
        /\ exc[t].native = MQMIError(MQRC_NO_MSG_AVAILABLE)
        /\ HandleUsable(queue[t])

\* How many times call c appears in the log s.
Count(s, c) == Cardinality({i \in 1..Len(s) : s[i] = c})

\* C16: one send invokes put at most once and one receive invokes get at most
\* once; after the put or the get nothing is called on the transport but the close
\* of an uncached send, so there is no second attempt and no reconnect; a failed
\* put or get ends the call with an error.
C16_NoRetry ==
    \A t \in Threads :
        /\ Count(calls[t], "put") <= 1
        /\ Count(calls[t], "get") <= 1
        /\ Count(calls[t], "connect") <= 1
        /\ \A i \in 1..Len(calls[t]) :
              calls[t][i] \in {"put", "get"}
                => \A j \in (i + 1)..Len(calls[t]) : calls[t][j] = "close"
        /\ (calls[t] # << >> /\ Last(calls[t]) \in {"put", "get"}
              /\ exc[t].native # NoCodes)
             => pc[t] = "idle" /\ outcome[t] \in TypedErrors

\* A send whose put failed has raised; the factory is still connected through the
\* connection it had.
C16_Witness ==
    \E t \in Threads :
        /\ op[t] = "send" /\ pc[t] = "idle"
        /\ calls[t] # << >> /\ Last(calls[t]) = "put"
        /\ outcome[t] = "WebSphereMQJMSException"
        /\ is_connected /\ Len(conns) = 1

\* What holds of a factory whose TLS settings were refused: no connection was
\* ever attempted, the factory is not connected, the caches are empty, and every
\* call that needed the connection raised the configuration error.
TlsRefused ==
    /\ \A c \in 1..Len(conns) : conns[c] = "new"
    /\ ~is_connected
    /\ CachesEmpty
    /\ \A t \in Threads :
          (op[t] \in AbortingOps /\ pc[t] = "idle") => outcome[t] = "JMSException"

C18_SendDecodeRoundTrip ==
    (/\ stage = "received"
     /\ snd_message.jms_priority # None /\ snd_message.jms_priority[1] \in 0..9
     /\ TruthyStr(snd_message.jms_correlation_id)
     /\ ~StartsWith(snd_message.jms_correlation_id[1], WMQ_ID_PREFIX)
     /\ snd_message.jms_expiration = None
     /\ StartsWith(snd_destination, QueueUri))
      => /\ rcv_message.jms_priority = snd_message.jms_priority
         /\ rcv_message.jms_correlation_id = snd_message.jms_correlation_id
         /\ rcv_message.jms_destination = Some(snd_destination)
         /\ rcv_message.jms_expiration = Some(0)

\* str(value) of the value of a user attribute.
StrForm(value) == IF value.kind = "str" THEN value.s ELSE unicode(value.n)

\* C19: every user property of the message sent is a property of the message
\* decoded, with the string form of the value it had.
C19_UserPropertiesRoundTrip ==
    stage = "received"
      => \A i \in 1..Len(snd_message.usr) :
            \E j \in 1..Len(rcv_message.usr) :
                /\ rcv_message.usr[j].name = snd_message.usr[i].name
                /\ rcv_message.usr[j].value = StrValue(StrForm(snd_message.usr[i].value))

\* The folders found in a byte string by following the length prefixes.
RECURSIVE WalkFolders(_)
WalkFolders(left) ==
    IF Len(left) < 4 THEN << >>
    ELSE <<Slice(left, 4, 4 + unpack(Slice(left, 0, 4)))>>
           \o WalkFolders(SliceFrom(left, 4 + unpack(Slice(left, 0, 4))))
RECURSIVE SumWithPrefixes(_)
SumWithPrefixes(walked) ==
    IF walked = << >> THEN 0 ELSE 4 + Len(walked[1]) + SumWithPrefixes(Tail(walked))
\* The tags of the folders the send wrote, in the order of the wire.
WrittenTags ==
    (IF needs_mcd THEN <<TagMcd>> ELSE << >>) \o <<TagJms>>
      \o (IF snd_message.usr # << >> THEN <<TagUsr>> ELSE << >>)
\* The bytes of the body between the fixed part and the text of the message.
FolderBytes ==
    Slice(snd_body, 36,
          Len(snd_body) - (IF snd_message.text # None THEN Len(snd_message.text[1]) ELSE 0))

\* C20: in the header a send wrote, with or without the mcd and usr folders,
\* following the 4-byte prefixes from byte 36 on finds exactly the folders
\* written (mcd, jms, usr in that order), each the serialised folder followed by
\* fewer than 4 spaces and of a length that is a multiple of 4, and bytes 8..11
\* hold 36 plus, for each folder, 4 plus its padded length.
C20_PaddingAndLengths ==
    stage \in {"put", "received"}
      => LET walked == WalkFolders(FolderBytes)
             written == SentFolders(needs_mcd, snd_message,
                                    strip_prefixes_from_destination(snd_destination),
                                    snd_now)
         IN /\ Len(walked) = Len(WrittenTags)
            /\ \A i \in 1..Len(walked) :
                  /\ Len(walked[i]) % 4 = 0
                  /\ \E k \in 0..3 :
                        walked[i] = tostring(written[WrittenTags[i]]) \o Spaces(k)
            /\ unpack(Slice(snd_body, 8, 12)) = 36 + SumWithPrefixes(walked)

\* A header with the three folders, the jms folder padded with spaces.
C20_Witness ==
    /\ stage = "put"
    /\ needs_mcd /\ snd_message.usr # << >>
    /\ Len(WalkFolders(FolderBytes)) = 3
    /\ WalkFolders(FolderBytes)[2][Len(WalkFolders(FolderBytes)[2])] = " "

\* C21: an expiration above 214748364700 ms gives the expiry MQEI_UNLIMITED,
\* and a positive expiration up to 214748364700 ms gives its number of
\* centiseconds.
C21_ExpiryClipping ==
    exp_md # None
      => LET k == exp_message[1].thousands
             u == exp_message[1].units
             above == k > 214748364 \/ (k = 214748364 /\ u > 700)
         IN IF above
              THEN exp_md[1] = [thousands |-> 0, units |-> -1]
              ELSE exp_md[1] = [thousands |-> k \div 10,
                                units |-> (k % 10) * 100 + u \div 10]

\* The queue name N a destination stands for: N itself, queue:///N or
\* queue://QM/N.
NameOf(a) ==
    CHOOSE d \in Dests :
        a \in {d, <<"q", "u", "e", "u", "e", ":", "/", "/", "/">> \o d,
                 <<"q", "u", "e", "u", "e", ":", "/", "/", "Q", "M", "/">> \o d}

\* C22: whichever way the destinations of the sends are written (N, queue:///N,
\* queue://QM/N, with a "/" in N), the send cache holds handles under queue
\* names only, each opened on the queue of that name; a send that has its handle
\* has the one cached under the name its destination stands for; and no two
\* send handles of one connection are on the same queue.
C22_SendKeyNormalised ==
    /\ \A a \in Addresses :
          open_send_queues_cache[a] # NoHandle
            => a \in Dests /\ handles[open_send_queues_cache[a]].q = a
    /\ \A t \in Threads :
          (op[t] = "send" /\ pc[t] = "io")
            => /\ queue[t] = open_send_queues_cache[NameOf(dest[t])]
               /\ handles[queue[t]].q = NameOf(dest[t])
    /\ \A h1, h2 \in 1..Len(handles) :
          (/\ handles[h1].role = "send" /\ handles[h2].role = "send"
           /\ handles[h1].q = handles[h2].q /\ handles[h1].conn = handles[h2].conn)
            => h1 = h2

\* A second call, a send to queue://QM/Q/1, finds in the cache the handle that
\* the first call, a send, opened on Q/1.
C22_Witness ==
    /\ ncalls = 2
    /\ op[MainThread] = "send" /\ pc[MainThread] = "io"
    /\ dest[MainThread] = <<"q", "u", "e", "u", "e", ":", "/", "/", "Q", "M", "/", "Q", "/", "1">>
    /\ calls[MainThread] = << >>
    /\ queue[MainThread] = 1 /\ Len(handles) = 1
    /\ handles[1].q = <<"Q", "/", "1">> /\ handles[1].role = "send"

\* C28: whichever way the destinations of the receives are written, the
\* receive cache holds handles under queue names only, and a receive that has
\* its handle has the one cached under the name its destination stands for.
C28_ReceiveKeyNormalised ==
    /\ \A a \in Addresses :
          open_receive_queues_cache[a] # NoHandle => a \in Dests
    /\ \A t \in Threads :
          (op[t] = "receive" /\ pc[t] = "io")
            => queue[t] = open_receive_queues_cache[NameOf(dest[t])]

\* C23: a message that receive returns has one of the two delivery modes, and
\* a descriptor whose persistence is none of MQPER_NOT_PERSISTENT,
\* MQPER_PERSISTENT and MQPER_PERSISTENCE_AS_Q_DEF ends the receive with a
\* WebSphereMQJMSException and without a message.
C23_PersistenceFailsClosed ==
    /\ stage \in {"received", "decoded"}
          => rcv_message.jms_delivery_mode \in {<<1>>, <<2>>}
    /\ (/\ stage \in {"received", "decoded", "WebSphereMQJMSException"}
        /\ snd_md.Persistence \notin {"MQPER_NOT_PERSISTENT", "MQPER_PERSISTENT",
                                       "MQPER_PERSISTENCE_AS_Q_DEF"})
          => stage = "WebSphereMQJMSException" /\ rcv_message = << >>

\* A descriptor with MQPER_PERSISTENCE_AS_PARENT has been refused.
C23_Witness ==
    /\ stage = "WebSphereMQJMSException"
    /\ snd_md.Persistence = "MQPER_PERSISTENCE_AS_PARENT"
    /\ rcv_message = << >>

\* The folders of a message on the queue, found by following the length
\* prefixes from byte 36 to the total length of bytes 8..11; the root name of a
\* folder whose root name has three letters.
WireFolders == WalkFolders(Slice(snd_body, 36, unpack(Slice(snd_body, 8, 12))))
RootTag(raw) == SubSeq(raw, 2, 4)

\* C24: decoding a header ends without an error whatever folders it holds, as
\* long as none is empty; a
\* folder whose root name is not jms, usr or (with needs_mcd) mcd is not in the
\* folder map, and every folder of the header with one of these names is,
\* whether it stands before or after such a folder.
C24_UnknownFolderSkipped ==
    (rcv_mqrfh2 # << >> /\ \A i \in 1..Len(WireFolders) : WireFolders[i] # << >>)
      => LET known == {<<"j", "m", "s">>, <<"u", "s", "r">>}
                        \cup (IF needs_mcd THEN {<<"m", "c", "d">>} ELSE {})
             present == {RootTag(WireFolders[i]) : i \in 1..Len(WireFolders)}
         IN /\ DOMAIN rcv_mqrfh2.folders = present \cap known
            /\ \A i \in 1..Len(WireFolders) :
                  RootTag(WireFolders[i]) \in known
                    => \E k \in 0..3 :
                          tostring(rcv_mqrfh2.folders[RootTag(WireFolders[i])]) \o Spaces(k)
                            = WireFolders[i]
            /\ (snd_md.Persistence \in {"MQPER_NOT_PERSISTENT", "MQPER_PERSISTENT",
                                         "MQPER_PERSISTENCE_AS_Q_DEF"})
                  => stage \in {"received", "decoded"}

\* A header with a psc folder between jms and usr has been decoded.
C24_Witness ==
    /\ stage = "decoded"
    /\ Len(WireFolders) = 3
    /\ RootTag(WireFolders[2]) = <<"p", "s", "c">>
    /\ DOMAIN rcv_mqrfh2.folders = {<<"j", "m", "s">>, <<"u", "s", "r">>}

\* Every folder behind the 4 bytes of its length, one after the other.
RECURSIVE PrefixedBlocks(_)
PrefixedBlocks(raws) ==
    IF raws = << >> THEN << >>
    ELSE pack(Len(raws[1])) \o raws[1] \o PrefixedBlocks(Tail(raws))

\* C30: the decode of a message whose header is a sequence of folders, each
\* behind the 4 bytes of its length (0 or more), ends, and the raw folders its
\* loop went through
\* and the payload it kept partition the bytes behind the fixed part: these
\* bytes are, for each iteration in turn, the 4 bytes of the length of its
\* folder and the folder, then the payload; the folders with their prefixes
\* fill the header up to the total length of bytes 8..11. For a message a send
\* wrote, the loop goes through as many folders as were written and the payload
\* is the text sent.
C30_DecodePartitions ==
    rcv_mqrfh2 # << >>
      => /\ SubSeq(snd_body, 37, Len(snd_body))
              = PrefixedBlocks(rcv_mqrfh2.raw_folders) \o rcv_mqrfh2.payload
         /\ unpack(Slice(snd_body, 8, 12)) = 36 + SumWithPrefixes(rcv_mqrfh2.raw_folders)
         /\ snd_message # << >>
              => /\ Len(rcv_mqrfh2.raw_folders) = Len(WrittenTags)
                 /\ rcv_mqrfh2.payload
                      = (IF snd_message.text # << >> THEN snd_message.text[1] ELSE << >>)

\* C30 with the folders it is true of: the same for every message whose header
\* is a sequence of folders of a positive length, each behind the 4 bytes of
\* that length; the decode of such a message ends without an error of the parser.
C30_DecodePartitionsFolders ==
    (rcv_mqrfh2 # << >> /\ \A i \in 1..Len(WireFolders) : WireFolders[i] # << >>)
      => /\ stage # "ParseError"
         /\ SubSeq(snd_body, 37, Len(snd_body))
              = PrefixedBlocks(rcv_mqrfh2.raw_folders) \o rcv_mqrfh2.payload
         /\ unpack(Slice(snd_body, 8, 12)) = 36 + SumWithPrefixes(rcv_mqrfh2.raw_folders)
         /\ \A i \in 1..Len(rcv_mqrfh2.raw_folders) :
                rcv_mqrfh2.raw_folders[i][1] = "<" /\ rcv_mqrfh2.raw_folders[i] = WireFolders[i]
         /\ Len(rcv_mqrfh2.raw_folders) = Len(WireFolders)
         /\ snd_message # << >>
              => /\ Len(rcv_mqrfh2.raw_folders) = Len(WrittenTags)
                 /\ rcv_mqrfh2.payload
                      = (IF snd_message.text # << >> THEN snd_message.text[1] ELSE << >>)

\* A message with three folders and a payload has been decoded.
C30_Witness ==
    /\ stage = "decoded"
    /\ Len(rcv_mqrfh2.raw_folders) = 3
    /\ rcv_mqrfh2.payload = <<"h", "i">>

\* The letters of the hex digits in lower case.
LowerHex(s) ==
    [i \in 1..Len(s) |->
        CASE s[i] = "A" -> "a" [] s[i] = "B" -> "b" [] s[i] = "C" -> "c"
          [] s[i] = "D" -> "d" [] s[i] = "E" -> "e" [] s[i] = "F" -> "f"
          [] OTHER -> s[i]]
\* The correlation identifier of the message sent is in the "ID:" form.
SentWithWmqId ==
    /\ stage \in {"sent", "received"}
    /\ snd_message.jms_correlation_id # None
    /\ StartsWith(snd_message.jms_correlation_id[1], WMQ_ID_PREFIX)

\* C25: an identifier "ID:" + hex of the bytes b is converted to exactly the
\* bytes b (byte i is worth 16 times the first digit of its pair plus the
\* second), the descriptor carries them, and rendering them again after the
\* send gives the identifier back up to the case of its letters; the message
\* identifier rendered after the send and on receive converts back to the bytes
\* of the descriptor.
C25_IdentifierRoundTrip ==
    /\ SentWithWmqId =>
         LET id == snd_message.jms_correlation_id[1]
             b == unhexlify_wmq_id(id)
         IN /\ 2 * Len(b) = Len(id) - Len(WMQ_ID_PREFIX)
            /\ \A i \in 1..Len(b) :
                 b[i] = Bytes[16 * HexValue(id[2 * i + 2]) + HexValue(id[2 * i + 3]) + 1]
            /\ snd_md.CorrelId = b
            /\ LowerHex(sent_message.jms_correlation_id[1]) = LowerHex(id)
    /\ stage \in {"sent", "received"} =>
         unhexlify_wmq_id(sent_message.jms_message_id[1]) = snd_md.MsgId
    /\ stage \in {"received", "decoded"} =>
         unhexlify_wmq_id(rcv_message.jms_message_id[1]) = snd_md.MsgId
\* An identifier written with upper-case digits went through the send and came
\* back in lower case, and the message was received.
C25_Witness ==
    /\ SentWithWmqId
    /\ stage = "received"
    /\ snd_message.jms_correlation_id[1][7] = "D"
    /\ sent_message.jms_correlation_id[1] # snd_message.jms_correlation_id[1]
    /\ snd_md.MsgId = AssignedMsgId


\* C26: a send that ends before its put has succeeded leaves the message of the
\* caller as it was, and a send whose put has succeeded ends with the message
\* identifier written from the descriptor.
C26_EnrichedAfterPut ==
    [][\A t \in Threads :
         /\ (op[t] = "send" /\ pc[t] \notin {"idle", "after_put"} /\ pc'[t] = "idle")
              => msg'[t] = msg[t]
         /\ (pc[t] = "after_put" /\ pc'[t] = "idle")
              => msg'[t].jms_message_id = AssignedId]_vars


\* C27: whenever the factory is not connected, the send, receive and dynamic
\* queue caches are all empty.
C27_NoHandleOutlivesConnection ==
    ~is_connected =>
        /\ open_send_queues_cache = EmptyCache
        /\ open_receive_queues_cache = EmptyCache
        /\ open_dynamic_queues_cache = EmptyCache


\* C29: the header of every message sent holds, behind the fixed part and up to
\* its total length, the folders mcd, jms, usr in this order, each behind the 4
\* bytes of its length: mcd exactly when the codec was made with needs_mcd, usr
\* exactly when the message has a user attribute, jms always; no other folder
\* and no other length prefix is written.
C29_FolderLayout ==
    (stage \in {"put", "sent", "received"})
      => /\ [i \in 1..Len(WireFolders) |-> RootTag(WireFolders[i])]
              = (IF needs_mcd THEN <<TagMcd>> ELSE << >>) \o <<TagJms>>
                  \o (IF snd_message.usr = << >> THEN << >> ELSE <<TagUsr>>)
         /\ \A i \in 1..Len(WireFolders) : WireFolders[i][1] = "<"
         /\ 36 + SumWithPrefixes(WireFolders) = unpack(Slice(snd_body, 8, 12))
         /\ SliceFrom(snd_body, unpack(Slice(snd_body, 8, 12)))
              = (IF snd_message.text # None THEN snd_message.text[1] ELSE << >>)
\* A message with user attributes was sent by a codec made without needs_mcd:
\* the header holds jms and usr.
C29_Witness ==
    /\ stage = "sent"
    /\ ~needs_mcd
    /\ Len(snd_message.usr) = 2
    /\ Len(WireFolders) = 2
    /\ RootTag(WireFolders[2]) = TagUsr


\* C31: once a message has been sent and the bytes of that send decoded, the
\* jms_expiration left on the message of the sender equals the one of the
\* decoded message, None on the side of the sender standing for the decoded 0.
C31_ExpirationAgreed ==
    stage = "received"
      => IF sent_message.jms_expiration = None
           THEN rcv_message.jms_expiration = Some(0)
           ELSE rcv_message.jms_expiration = sent_message.jms_expiration

====
